---- MODULE Spec2Model ----
(***************************************************************************)
(* Model of the flows-data-viz front end: the App controller               *)
(* (src/src/App.tsx) and the SankeyDiagram component                       *)
(* (src/unnamed/part_000): grant fetch, recipient profile fetch, resize    *)
(* observer and the render effect that builds the flow graph handed to the *)
(* Sankey layout.                                                          *)
(*                                                                         *)
(* JavaScript strings are sequences of one-character strings, so that      *)
(* toLowerCase, parseFloat and template concatenation are computed         *)
(* character by character.  undefined and null are the one-element         *)
(* sequences Undefined and Null, which no character sequence equals.       *)
(***************************************************************************)
EXTENDS Integers, Sequences, FiniteSets, TLC

VARIABLES
    loading,            \* App: useState(true)
    error,              \* App: useState<string | null>(null)
    items,              \* App: useState<GrantItem[]>([])
    grantPc,            \* position of App.fetchData
    grantRequests,      \* number of grant requests issued so far
    responseData,       \* fetchData: what response.json() resolved to, if it did
    itemsUndefined,     \* App: items holds undefined (items is then <<>> here)
    dimensions,         \* SankeyDiagram: useState({width: 0, height: 0})
    recipientProfiles,  \* SankeyDiagram: useState({})
    profilePc,          \* position of fetchRecipientProfiles
    profileRequest,     \* addresses sent to the profile endpoint
    links,              \* the render effect's link list before filtering
    graph,              \* the graph last handed to the Sankey layout
    drawn               \* the render effect has drawn a diagram into the svg

vars == <<loading, error, items, itemsUndefined, grantPc, grantRequests,
          responseData,
          dimensions, recipientProfiles, profilePc, profileRequest, links,
          graph, drawn>>

Undefined == <<"undefined">>
Null == <<"null">>
NaN == [nan |-> TRUE, mant |-> 0, exp |-> 0]

-----------------------------------------------------------------------------
(* Strings *)

LowerChar(c) ==
    CASE c = "A" -> "a" [] c = "B" -> "b" [] c = "C" -> "c"
      [] c = "D" -> "d" [] c = "E" -> "e" [] c = "F" -> "f"
      [] OTHER -> c

\* String.prototype.toLowerCase
ToLowerCase(s) == [i \in DOMAIN s |-> LowerChar(s[i])]

Digits == {"0", "1", "2", "3", "4", "5", "6", "7", "8", "9"}

DigitVal(c) ==
    CASE c = "0" -> 0 [] c = "1" -> 1 [] c = "2" -> 2 [] c = "3" -> 3
      [] c = "4" -> 4 [] c = "5" -> 5 [] c = "6" -> 6 [] c = "7" -> 7
      [] c = "8" -> 8 [] c = "9" -> 9

RECURSIVE SkipSpace(_, _)
SkipSpace(s, i) ==
    IF i <= Len(s) /\ s[i] = " " THEN SkipSpace(s, i + 1) ELSE i

\* The end (exclusive) of the run of digits of s that starts at i.
RECURSIVE DigitsEnd(_, _)
DigitsEnd(s, i) ==
    IF i <= Len(s) /\ s[i] \in Digits THEN DigitsEnd(s, i + 1) ELSE i

\* The decimal value of the digits s[i..j-1], continuing from acc.
RECURSIVE DigitsVal(_, _, _, _)
DigitsVal(s, i, j, acc) ==
    IF i >= j THEN acc ELSE DigitsVal(s, i + 1, j, 10 * acc + DigitVal(s[i]))

\* parseFloat: leading white space is skipped, then the longest prefix that
\* is a decimal literal (sign, digits, point, digits) is read; no such prefix
\* gives NaN.  A number is mant * 10^-exp.  (Exponents and "Infinity" need
\* letters the rate strings of this model do not contain.)
ParseFloat(s) ==
    LET b == SkipSpace(s, 1)
        signed == b <= Len(s) /\ s[b] \in {"+", "-"}
        neg == signed /\ s[b] = "-"
        i0 == IF signed THEN b + 1 ELSE b
        i1 == DigitsEnd(s, i0)
        point == i1 <= Len(s) /\ s[i1] = "."
        f0 == i1 + 1
        f1 == IF point THEN DigitsEnd(s, f0) ELSE f0
        nfrac == IF point THEN f1 - f0 ELSE 0
        whole == DigitsVal(s, i0, i1, 0)
        all == IF point THEN DigitsVal(s, f0, f1, whole) ELSE whole
    IN  IF i1 = i0 /\ nfrac = 0
        THEN NaN
        ELSE [nan |-> FALSE, mant |-> IF neg THEN 0 - all ELSE all, exp |-> nfrac]

\* Comparisons of a parsed number with 0; every comparison with NaN is false.
LeqZero(v) == ~v.nan /\ v.mant <= 0
GtZero(v) == ~v.nan /\ v.mant > 0
EqZero(v) == ~v.nan /\ v.mant = 0

\* Truthiness of a string | null | undefined value.
Truthy(s) == s # Undefined /\ s # Null /\ s # <<>>

-----------------------------------------------------------------------------
(* The render effect's graph construction (SankeyDiagram, main effect) *)

FUNDING_SOURCE_ID ==
    <<"_", "_", "_", "f", "u", "n", "d", "i", "n", "g", "_",
      "s", "o", "u", "r", "c", "e", "_", "_", "_">>

RECIPIENT_PREFIX == <<"r", "e", "c", "i", "p", "i", "e", "n", "t", "_">>

\* A JavaScript Map is the sequence of its values in insertion order; every
\* value carries its key as nodeId.
MapHas(map, id) == \E i \in DOMAIN map : map[i].nodeId = id

\* Map.set: an existing key keeps its position and takes the new value.
MapSet(map, node) ==
    IF MapHas(map, node.nodeId)
    THEN [i \in DOMAIN map |->
            IF map[i].nodeId = node.nodeId THEN node ELSE map[i]]
    ELSE Append(map, node)

MapDelete(map, id) == SelectSeq(map, LAMBDA n : n.nodeId # id)

\* recipientProfiles[key]: the profile, or undefined.
HasProfile(profiles, key) == key \in DOMAIN profiles

FundingSourceNode ==
    [nodeId |-> FUNDING_SOURCE_ID,
     name |-> <<"Funding Source">>,
     title |-> Undefined,
     isRecipient |-> FALSE,
     isFlow |-> FALSE,
     username |-> Undefined,
     profileUrl |-> Undefined,
     flowUrl |-> Undefined,
     itemUrl |-> Undefined]

GrantNode(item) ==
    [nodeId |-> item.id,
     name |-> IF Truthy(item.title) THEN item.title ELSE item.id,
     title |-> item.title,
     isRecipient |-> FALSE,
     isFlow |-> item.isFlow,
     username |-> Undefined,
     profileUrl |-> Undefined,
     flowUrl |-> IF item.isFlow
                 THEN <<"https://flows.wtf/flow/">> \o item.id
                 ELSE Undefined,
     itemUrl |-> <<"https://flows.wtf/item/">> \o item.id]

\* A grant is terminal: parseFloat(monthlyOutgoingFlowRate) === 0 && recipient
IsTerminal(item) ==
    EqZero(ParseFloat(item.monthlyOutgoingFlowRate)) /\ Truthy(item.recipient)

RecipientId(item) == RECIPIENT_PREFIX \o item.recipient

RecipientNode(item, profiles) ==
    LET recipientLowerCase == ToLowerCase(item.recipient)
        found == HasProfile(profiles, recipientLowerCase)
        profile == profiles[recipientLowerCase]
    IN  [nodeId |-> RecipientId(item),
         name |-> IF found
                  THEN profile.display_name \o <<" ", "(">> \o profile.username
                         \o <<")">>
                  ELSE item.recipient,
         title |-> IF found
                   THEN <<"Recipient: ">> \o profile.display_name
                   ELSE <<"Recipient: ">> \o item.recipient,
         isRecipient |-> TRUE,
         isFlow |-> FALSE,
         username |-> IF found THEN profile.username ELSE Undefined,
         profileUrl |-> IF found
                        THEN <<"https://warpcast.com/">> \o profile.username
                        ELSE Undefined,
         flowUrl |-> Undefined,
         itemUrl |-> Undefined]

\* First pass: one node per grant, keyed by its id.
RECURSIVE AddGrantNodes(_, _, _)
AddGrantNodes(map, its, i) ==
    IF i > Len(its) THEN map
    ELSE AddGrantNodes(MapSet(map, GrantNode(its[i])), its, i + 1)

\* Recipient nodes of the terminal grants, added only when the id is new.
RECURSIVE AddRecipientNodes(_, _, _, _)
AddRecipientNodes(map, its, profiles, i) ==
    IF i > Len(its) THEN map
    ELSE LET item == its[i]
             next == IF IsTerminal(item) /\ ~MapHas(map, RecipientId(item))
                     THEN MapSet(map, RecipientNode(item, profiles))
                     ELSE map
         IN  AddRecipientNodes(next, its, profiles, i + 1)

\* nodesMap as it stands when the link passes run.
NodesMap(its, profiles) ==
    AddRecipientNodes(AddGrantNodes(<<FundingSourceNode>>, its, 1),
                      its, profiles, 1)

\* The upstream grant is ignored: every inbound link starts at the funding source.
ActualSourceIdIgnoresFlowId(item, nodesMap) == FUNDING_SOURCE_ID

ActualSourceId(item, nodesMap) ==
    IF Truthy(item.flowId) /\ MapHas(nodesMap, item.flowId)
    THEN item.flowId
    ELSE FUNDING_SOURCE_ID

\* What one iteration of the second pass pushes for item.
InboundLinks(item, nodesMap) ==
    LET value == ParseFloat(item.monthlyIncomingFlowRate)
    IN  IF LeqZero(value) THEN <<>>
        ELSE IF MapHas(nodesMap, item.id)
        THEN <<[source |-> ActualSourceId(item, nodesMap),
                target |-> item.id,
                value |-> value]>>
        ELSE <<>>

\* What one iteration of the recipient link pass pushes for item.
RecipientLinks(item, nodesMap) ==
    LET grantValue == ParseFloat(item.monthlyIncomingFlowRate)
    IN  IF IsTerminal(item) /\ GtZero(grantValue)
           /\ MapHas(nodesMap, RecipientId(item))
        THEN <<[source |-> item.id,
                target |-> RecipientId(item),
                value |-> grantValue]>>
        ELSE <<>>

RECURSIVE InboundPass(_, _, _)
InboundPass(its, nodesMap, i) ==
    IF i > Len(its) THEN <<>>
    ELSE InboundLinks(its[i], nodesMap) \o InboundPass(its, nodesMap, i + 1)

RECURSIVE RecipientPass(_, _, _)
RecipientPass(its, nodesMap, i) ==
    IF i > Len(its) THEN <<>>
    ELSE RecipientLinks(its[i], nodesMap) \o RecipientPass(its, nodesMap, i + 1)

\* The link list before filtering.
Links(its, profiles) ==
    LET nodesMap == NodesMap(its, profiles)
    IN  InboundPass(its, nodesMap, 1) \o RecipientPass(its, nodesMap, 1)

\* The funding source is never removed.
RemoveFundingSourceNever(nodesMap, ls) == nodesMap

\* Remove the funding source if it has no outgoing links.
RemoveFundingSource(nodesMap, ls) ==
    IF ~(\E i \in DOMAIN ls : ls[i].source = FUNDING_SOURCE_ID)
    THEN MapDelete(nodesMap, FUNDING_SOURCE_ID)
    ELSE nodesMap

NodesWithLinks(ls) ==
    {ls[i].source : i \in DOMAIN ls} \cup {ls[i].target : i \in DOMAIN ls}

\* nodesWithLinks collects the link targets only.
FilteredNodesMapTargetsOnly(nodesMap, ls) ==
    SelectSeq(nodesMap,
              LAMBDA n : n.nodeId \in {ls[i].target : i \in DOMAIN ls})

FilteredNodesMap(nodesMap, ls) ==
    SelectSeq(nodesMap, LAMBDA n : n.nodeId \in NodesWithLinks(ls))

\* The links are not filtered.
FilteredLinksKeepsAll(filteredNodesMap, ls) == ls

FilteredLinks(filteredNodesMap, ls) ==
    SelectSeq(ls, LAMBDA l : MapHas(filteredNodesMap, l.source)
                             /\ MapHas(filteredNodesMap, l.target))

\* The connectivity filter: drop unlinked nodes, then links with a dropped end.
FilterStep(nodesMap, ls) ==
    LET filteredNodesMap == FilteredNodesMap(nodesMap, ls)
    IN  [nodes |-> filteredNodesMap,
         links |-> FilteredLinks(filteredNodesMap, ls)]

\* The graph handed to the Sankey layout.
BuildGraph(its, profiles) ==
    LET ls == Links(its, profiles)
    IN  FilterStep(RemoveFundingSource(NodesMap(its, profiles), ls), ls)

NoGraph == [nodes |-> <<>>, links |-> <<>>]

-----------------------------------------------------------------------------
(* Inputs *)

MaxItems == 2       \* longest grant list
MaxSide == 1        \* largest width and height the resize observer reports

DigitChar(n) ==
    CASE n = 0 -> "0" [] n = 1 -> "1" [] n = 2 -> "2" [] n = 3 -> "3"
      [] n = 4 -> "4" [] n = 5 -> "5" [] n = 6 -> "6" [] n = 7 -> "7"
      [] n = 8 -> "8" [] n = 9 -> "9"

\* The i-th record of a response has the id "g<i>".
IdOf(i) == <<"g", DigitChar(i)>>

\* The ids the i-th record may carry.  The endpoint's ids are plain strings:
\* nothing keeps a record (here the first) from carrying the funding source's
\* id.
IdsAt(i) == IF i = 1 THEN {IdOf(1), FUNDING_SOURCE_ID} ELSE {IdOf(i)}

\* flowId: null, or the second grant (absent from a list of one grant, and
\* for the second grant itself its own id).
FlowIds == {Null, IdOf(2)}

\* monthlyIncomingFlowRate: positive, zero, negative, unparsable.
IncomingRates == {<<"1", ".", "5">>, <<"0">>, <<"-", "5">>, <<"a", "b", "c">>}

\* (monthlyOutgoingFlowRate, recipient): terminal grants of two spellings of
\* one address, a grant without recipient, and a flow with outgoing rate.
Endings ==
    {<< <<"0", ".", "0">>, <<"0", "x", "a", "b">> >>,
     << <<"0">>, <<"0", "x", "A", "b">> >>,
     << <<"0">>, <<>> >>,
     << <<"2", "5">>, <<"0", "x", "a", "b">> >>}

GrantItem(id, flowId, incoming, ending) ==
    [id |-> id,
     title |-> IF EqZero(ParseFloat(ending[1])) THEN <<>> ELSE <<"F", "l", "o", "w">>,
     status |-> 1,
     recipient |-> ending[2],
     monthlyIncomingFlowRate |-> incoming,
     monthlyOutgoingFlowRate |-> ending[1],
     flowId |-> flowId,
     isFlow |-> ~EqZero(ParseFloat(ending[1]))]

\* What a record holds besides its id.
Shapes == FlowIds \X IncomingRates \X Endings

\* The grant list whose first record has the id first and whose i-th
\* record has the shape shapes[i].
GrantList(first, shapes) ==
    [i \in DOMAIN shapes |->
        GrantItem(IF i = 1 THEN first ELSE IdOf(i),
                  shapes[i][1], shapes[i][2], shapes[i][3])]

Profile1 == [display_name |-> <<"D", "a", "n">>, username |-> <<"d", "a", "n">>]
Profile2 == [display_name |-> <<"E", "v", "e">>, username |-> <<"e", "v", "e">>]

EmptyProfiles == [a \in {} |-> Profile1]

Sides == 0..MaxSide

-----------------------------------------------------------------------------
(* SankeyDiagram: the main effect *)

\* The effect's body on the component's current state: nothing happens on an
\* empty list or a zero-sized container (the two refs are set whenever the
\* component is mounted), else the graph is rebuilt, handed to the layout and
\* drawn.  What the layout library does with the graph is not modelled.
RenderEffect(its, dims, profiles) ==
    IF Len(its) = 0 \/ dims.width = 0 \/ dims.height = 0
    THEN UNCHANGED <<links, graph, drawn>>
    ELSE /\ links' = Links(its, profiles)
         /\ graph' = BuildGraph(its, profiles)
         /\ drawn' = TRUE

-----------------------------------------------------------------------------
(* SankeyDiagram: fetchRecipientProfiles *)

MaxEntries == 1     \* most addresses in a profile response

\* The lowercased recipients of the grants with zero outgoing rate.
UniqueRecipients(its) ==
    {ToLowerCase(its[i].recipient) :
        i \in {j \in DOMAIN its :
                 Truthy(its[j].recipient)
                 /\ EqZero(ParseFloat(its[j].monthlyOutgoingFlowRate))}}

\* The effect on mount: no request without recipients.
StartProfileFetch(its) ==
    IF UniqueRecipients(its) = {}
    THEN /\ profilePc' = "skipped"
         /\ profileRequest' = {}
    ELSE /\ profilePc' = "fetching"
         /\ profileRequest' = UniqueRecipients(its)

\* A response body: entries (address, users) in the body's key order.
ResponseAddresses == {<<"0", "x", "a", "b">>, <<"0", "X", "A", "B">>}
ResponseUsers == {<<>>, <<Profile1>>, <<Profile2, Profile1>>}
ResponseEntries ==
    {[address |-> a, users |-> u] : a \in ResponseAddresses, u \in ResponseUsers}

RECURSIVE BodiesOfLen(_)
BodiesOfLen(n) ==
    IF n = 0 THEN {<<>>}
    ELSE {Append(b, e) : b \in BodiesOfLen(n - 1), e \in ResponseEntries}

NeynarResponses == UNION {BodiesOfLen(n) : n \in 0..MaxEntries}

ObjectSet(obj, key, value) ==
    [k \in DOMAIN obj \cup {key} |-> IF k = key THEN value ELSE obj[k]]

\* Object.entries(data).forEach: the first user of every address that has one.
RECURSIVE ProcessProfiles(_, _, _)
ProcessProfiles(profiles, data, i) ==
    IF i > Len(data) THEN profiles
    ELSE LET entry == data[i]
             next == IF Len(entry.users) > 0
                     THEN ObjectSet(profiles, ToLowerCase(entry.address),
                                    entry.users[1])
                     ELSE profiles
         IN  ProcessProfiles(next, data, i + 1)

-----------------------------------------------------------------------------
(* App: fetchData *)

Statuses == {"404", "500"}

\* What response.json() resolves to: the levels of
\* { data: { grantss: { items } } } that are present.
ResponseLists ==
    {<<>>,
     <<GrantItem(IdOf(1), Null, <<"1", ".", "5">>, << <<"0">>, <<"0", "x", "A", "b">> >>)>>,
     <<GrantItem(IdOf(1), Null, <<"a", "b", "c">>, << <<"2", "5">>, <<>> >>)>>,
     <<GrantItem(IdOf(1), Null, <<"1", ".", "5">>, << <<"2", "5">>, <<>> >>),
       GrantItem(IdOf(2), IdOf(1), <<"1", ".", "5">>,
                 << <<"0", ".", "0">>, <<"0", "x", "a", "b">> >>)>>}

ResponseBodies ==
    {[hasData |-> FALSE, hasGrantss |-> FALSE, hasItems |-> FALSE, items |-> <<>>],
     [hasData |-> TRUE, hasGrantss |-> FALSE, hasItems |-> FALSE, items |-> <<>>],
     [hasData |-> TRUE, hasGrantss |-> TRUE, hasItems |-> FALSE, items |-> <<>>]}
    \cup {[hasData |-> TRUE, hasGrantss |-> TRUE, hasItems |-> TRUE, items |-> l] :
            l \in ResponseLists}

\* responseData.data.grantss.items: reading a property of undefined throws,
\* reading a missing property gives undefined.
ReadItems(body) ==
    IF ~body.hasData
    THEN [threw |-> TRUE, message |-> <<"Cannot read properties of undefined (reading 'grantss')">>,
          undefined |-> TRUE, value |-> <<>>]
    ELSE IF ~body.hasGrantss
    THEN [threw |-> TRUE, message |-> <<"Cannot read properties of undefined (reading 'items')">>,
          undefined |-> TRUE, value |-> <<>>]
    ELSE IF ~body.hasItems
    THEN [threw |-> FALSE, message |-> <<>>, undefined |-> TRUE, value |-> <<>>]
    ELSE [threw |-> FALSE, message |-> <<>>, undefined |-> FALSE,
          value |-> body.items]

\* The render branches of App.  Reading items.length of undefined throws,
\* and React then unmounts the whole tree: nothing is displayed.
RenderThrows == ~loading /\ ~Truthy(error) /\ itemsUndefined

Displayed ==
    IF RenderThrows THEN {}
    ELSE {v \in {"loading", "error", "diagram", "empty"} :
            \/ v = "loading" /\ loading
            \/ v = "error" /\ Truthy(error)
            \/ v = "diagram" /\ ~loading /\ ~Truthy(error) /\ Len(items) > 0
            \/ v = "empty" /\ ~loading /\ ~Truthy(error) /\ Len(items) = 0}

\* SankeyDiagram is mounted.
DiagramMounted == "diagram" \in Displayed

\* The catch block issues the request again.
FailAndRetry(message) ==
    /\ error' = message
    /\ loading' = FALSE
    /\ grantPc' = "fetching"
    /\ grantRequests' = grantRequests + 1
    /\ UNCHANGED <<items, itemsUndefined, dimensions, recipientProfiles,
                   profilePc, profileRequest, links, graph, drawn>>

\* catch and finally of fetchData: setError and setLoading(false) run in one
\* continuation and are rendered together.
Fail(message) ==
    /\ error' = message
    /\ loading' = FALSE
    /\ grantPc' = "done"
    /\ UNCHANGED <<items, itemsUndefined, grantRequests, dimensions,
                   recipientProfiles, profilePc, profileRequest, links, graph,
                   drawn>>

Init ==
    /\ loading = TRUE
    /\ error = Null
    /\ items = <<>>
    /\ grantPc = "fetching"
    /\ grantRequests = 1
    /\ responseData = <<>>
    /\ itemsUndefined = FALSE
    /\ dimensions = [width |-> 0, height |-> 0]
    /\ recipientProfiles = EmptyProfiles
    /\ profilePc = "idle"
    /\ profileRequest = {}
    /\ links = <<>>
    /\ graph = NoGraph
    /\ drawn = FALSE

\* fetch() rejects.
GrantFetchRejected ==
    /\ grantPc = "fetching"
    /\ Fail(<<"Failed to fetch">>)
    /\ UNCHANGED responseData

\* !response.ok
GrantResponseNotOk ==
    /\ grantPc = "fetching"
    /\ \E status \in Statuses :
          Fail(<<"API request failed with status ", status>>)
    /\ UNCHANGED responseData

GrantResponseOk ==
    /\ grantPc = "fetching"
    /\ grantPc' = "parsing"
    /\ UNCHANGED <<loading, error, items, itemsUndefined, grantRequests,
                   responseData, dimensions, recipientProfiles, profilePc, profileRequest,
                   links, graph, drawn>>

\* response.json() rejects: the body is not JSON.
GrantBodyInvalid ==
    /\ grantPc = "parsing"
    /\ Fail(<<"Unexpected token < in JSON at position 0">>)
    /\ UNCHANGED responseData

\* response.json() resolves: setItems, setLoading(false), and the render that
\* follows, which reads items.length and mounts SankeyDiagram on a non-empty
\* list (its effects run: the profile fetch starts, the main effect returns
\* on the zero dimensions).
GrantBodyParsed ==
    /\ grantPc = "parsing"
    /\ \E body \in ResponseBodies :
         LET read == ReadItems(body)
         IN  /\ responseData' = <<body>>
             /\ IF read.threw
                THEN Fail(read.message)
                ELSE /\ items' = read.value
                     /\ itemsUndefined' = read.undefined
                     /\ loading' = FALSE
                     /\ grantPc' = "done"
                     /\ IF ~read.undefined /\ Len(read.value) > 0
                        THEN StartProfileFetch(read.value)
                        ELSE UNCHANGED <<profilePc, profileRequest>>
                     /\ UNCHANGED <<error, grantRequests, dimensions,
                                    recipientProfiles, links, graph, drawn>>

\* The resize observer's callback: setDimensions, then the main effect.
ResizeObserved ==
    /\ DiagramMounted
    /\ \E w \in Sides, h \in Sides :
         /\ dimensions' = [width |-> w, height |-> h]
         /\ RenderEffect(items, [width |-> w, height |-> h], recipientProfiles)
    /\ UNCHANGED <<loading, error, items, itemsUndefined, grantPc, grantRequests,
                   responseData,
                   recipientProfiles, profilePc, profileRequest>>

\* The catch block reports the failure in the view's error state.
ProfileFailSetsError ==
    /\ profilePc' = "failed"
    /\ error' = <<"Failed to fetch recipient profiles">>
    /\ UNCHANGED <<loading, items, itemsUndefined, grantPc, grantRequests,
                   responseData, dimensions, recipientProfiles, profileRequest,
                   links, graph, drawn>>

\* catch of fetchRecipientProfiles: console.error
ProfileFail ==
    /\ profilePc' = "failed"
    /\ UNCHANGED <<loading, error, items, itemsUndefined, grantPc, grantRequests,
                   responseData,
                   dimensions, recipientProfiles, profileRequest,
                   links, graph, drawn>>

ProfileFetchRejected ==
    /\ profilePc = "fetching"
    /\ ProfileFail

ProfileResponseNotOk ==
    /\ profilePc = "fetching"
    /\ ProfileFail

ProfileResponseOk ==
    /\ profilePc = "fetching"
    /\ profilePc' = "parsing"
    /\ UNCHANGED <<loading, error, items, itemsUndefined, grantPc, grantRequests,
                   responseData,
                   dimensions, recipientProfiles, profileRequest,
                   links, graph, drawn>>

ProfileBodyInvalid ==
    /\ profilePc = "parsing"
    /\ ProfileFail

\* recipientProfiles is not among the main effect's dependencies.
ProfileBodyParsedNoRender ==
    /\ profilePc = "parsing"
    /\ \E data \in NeynarResponses :
         recipientProfiles' = ProcessProfiles(EmptyProfiles, data, 1)
    /\ profilePc' = "done"
    /\ UNCHANGED <<loading, error, items, itemsUndefined, grantPc, grantRequests,
                   responseData, dimensions, profileRequest, links, graph, drawn>>

\* response.json() resolves: setRecipientProfiles, then the main effect.
ProfileBodyParsed ==
    /\ profilePc = "parsing"
    /\ \E data \in NeynarResponses :
         /\ recipientProfiles' = ProcessProfiles(EmptyProfiles, data, 1)
         /\ RenderEffect(items, dimensions, ProcessProfiles(EmptyProfiles, data, 1))
    /\ profilePc' = "done"
    /\ UNCHANGED <<loading, error, items, itemsUndefined, grantPc, grantRequests,
                   responseData,
                   dimensions, profileRequest>>

Next ==
    \/ GrantFetchRejected
    \/ GrantResponseNotOk
    \/ GrantResponseOk
    \/ GrantBodyInvalid
    \/ GrantBodyParsed
    \/ ResizeObserved
    \/ ProfileFetchRejected
    \/ ProfileResponseNotOk
    \/ ProfileResponseOk
    \/ ProfileBodyInvalid
    \/ ProfileBodyParsed

Spec == Init /\ [][Next]_vars

\* Every pending fetch step is eventually taken: the network answers.  The
\* resize observer fires when the container changes, which nothing forces.
GrantFetchStep ==
    \/ GrantFetchRejected
    \/ GrantResponseNotOk
    \/ GrantResponseOk
    \/ GrantBodyInvalid
    \/ GrantBodyParsed

ProfileFetchStep ==
    \/ ProfileFetchRejected
    \/ ProfileResponseNotOk
    \/ ProfileResponseOk
    \/ ProfileBodyInvalid
    \/ ProfileBodyParsed

FairSpec ==
    /\ Init
    /\ [][Next]_vars
    /\ WF_vars(GrantFetchStep)
    /\ WF_vars(ProfileFetchStep)

-----------------------------------------------------------------------------
(* The graph construction on every grant list and profile mapping *)

ProfileMappings ==
    {EmptyProfiles, ObjectSet(EmptyProfiles, <<"0", "x", "a", "b">>, Profile1)}

\* SankeyDiagram mounted on a list, with a profile mapping and a viewport.
BuilderInit ==
    /\ loading = FALSE
    /\ error = Null
    /\ \E n \in 1..MaxItems, first \in IdsAt(1) :
          \E shapes \in [1..n -> Shapes] : items = GrantList(first, shapes)
    /\ grantPc = "done"
    /\ grantRequests = 1
    /\ responseData = <<[hasData |-> TRUE, hasGrantss |-> TRUE,
                         hasItems |-> TRUE, items |-> items]>>
    /\ itemsUndefined = FALSE
    /\ dimensions = [width |-> MaxSide, height |-> MaxSide]
    /\ recipientProfiles \in ProfileMappings
    /\ profilePc = "done"
    /\ profileRequest = UniqueRecipients(items)
    /\ links = <<>>
    /\ graph = NoGraph
    /\ drawn = FALSE

\* One run of the main effect.
Render ==
    /\ DiagramMounted
    /\ RenderEffect(items, dimensions, recipientProfiles)
    /\ UNCHANGED <<loading, error, items, itemsUndefined, grantPc, grantRequests,
                   responseData,
                   dimensions, recipientProfiles, profilePc,
                   profileRequest>>

BuilderNext == Render

BuilderSpec == BuilderInit /\ [][BuilderNext]_vars

-----------------------------------------------------------------------------
(* Properties of the graph handed to the layout (BuilderSpec) *)

NodeIds(nodes) == {nodes[i].nodeId : i \in DOMAIN nodes}

\* C1: every link of the graph handed to the layout has its source and its
\* target among the ids of the filtered node list.
C1_LinksReferenceNodes ==
    drawn => \A i \in DOMAIN graph.links :
                /\ graph.links[i].source \in NodeIds(graph.nodes)
                /\ graph.links[i].target \in NodeIds(graph.nodes)

\* A graph with links from which the funding source node was dropped.
C1_Witness ==
    /\ drawn
    /\ Len(graph.links) > 0
    /\ FUNDING_SOURCE_ID \notin NodeIds(graph.nodes)

\* C2: the funding source node is in the node list iff some link of the
\* graph has it as source.
C2_FundingSourceIffLinked ==
    drawn => (FUNDING_SOURCE_ID \in NodeIds(graph.nodes)
              <=> \E i \in DOMAIN graph.links :
                     graph.links[i].source = FUNDING_SOURCE_ID)

\* The funding source is kept in a graph that also has another root.
C2_Witness ==
    /\ drawn
    /\ FUNDING_SOURCE_ID \in NodeIds(graph.nodes)
    /\ \E i \in DOMAIN graph.links : graph.links[i].source # FUNDING_SOURCE_ID

\* C3: no two distinct recipient nodes of the graph have ids that are equal
\* once the address is lowercased.
C3_RecipientsUniqueIgnoringCase ==
    drawn => \A m, n \in DOMAIN graph.nodes :
                (/\ m # n
                 /\ graph.nodes[m].isRecipient
                 /\ graph.nodes[n].isRecipient)
                => ToLowerCase(graph.nodes[m].nodeId)
                     # ToLowerCase(graph.nodes[n].nodeId)

\* C4: a grant whose incoming rate is not a positive number pushes no link,
\* and every link value is a positive number.
C4_OnlyPositiveRatesLink ==
    drawn =>
      /\ \A i \in DOMAIN items :
            ~GtZero(ParseFloat(items[i].monthlyIncomingFlowRate))
            => LET nodesMap == NodesMap(items, recipientProfiles)
               IN  /\ InboundLinks(items[i], nodesMap) = <<>>
                   /\ RecipientLinks(items[i], nodesMap) = <<>>
      /\ \A i \in DOMAIN links : GtZero(links[i].value)

\* The grants the fifth claim is about: zero outgoing rate, a recipient and
\* a positive incoming rate.
PaysRecipient(item) ==
    /\ EqZero(ParseFloat(item.monthlyOutgoingFlowRate))
    /\ item.recipient # <<>>
    /\ GtZero(ParseFloat(item.monthlyIncomingFlowRate))

\* C5: a terminal grant with positive incoming rate pushes exactly two
\* links: one into the grant node, from its flowId if that is the id of a
\* node and else from the funding source, and one from the grant node to
\* recipient_<recipient>, both with the incoming rate as value.
C5_TerminalGrantTwoLinks ==
    drawn =>
      LET nodesMap == NodesMap(items, recipientProfiles)
      IN
      \A i \in DOMAIN items :
        PaysRecipient(items[i]) =>
          LET item == items[i]
              pushed == InboundLinks(item, nodesMap)
                          \o RecipientLinks(item, nodesMap)
              rate == ParseFloat(item.monthlyIncomingFlowRate)
              upstream == IF item.flowId # Null
                             /\ item.flowId \in NodeIds(nodesMap)
                          THEN item.flowId
                          ELSE FUNDING_SOURCE_ID
          IN  /\ Len(pushed) = 2
              /\ pushed[1] = [source |-> upstream, target |-> item.id,
                              value |-> rate]
              /\ pushed[2] = [source |-> item.id,
                              target |-> RECIPIENT_PREFIX \o item.recipient,
                              value |-> rate]
              /\ \E j, k \in DOMAIN links :
                    j < k /\ links[j] = pushed[1] /\ links[k] = pushed[2]

\* A terminal grant funded by another grant of the list.
C5_Witness ==
    /\ drawn
    /\ \E i \in DOMAIN items :
          /\ PaysRecipient(items[i])
          /\ items[i].flowId \in {items[j].id : j \in DOMAIN items}

\* The connectivity filter leaves only linked nodes, is idempotent, and its
\* link-dropping half drops nothing.
FilterIsClean ==
    /\ \A n \in NodeIds(graph.nodes) : n \in NodesWithLinks(graph.links)
    /\ FilterStep(graph.nodes, graph.links) = graph
    /\ graph.links = links

ReservedIdUnused ==
    \A i \in DOMAIN items : items[i].id # FUNDING_SOURCE_ID

-----------------------------------------------------------------------------
(* Properties of the controller and of the diagram's updates (Spec, FairSpec) *)

\* The controller's state.
State ==
    IF loading THEN "Loading"
    ELSE IF Truthy(error) THEN "Error"
    ELSE "Loaded"

\* C6: the controller starts in Loading; it leaves Loading in the very step
\* in which the grant fetch ends, for Error or Loaded; once out of Loading
\* its loading, error and items never change again, and the number of grant
\* requests stays the one issued on mount.
C6_OneTransitionNoRetry ==
    /\ State = "Loading" /\ grantRequests = 1
    /\ [][/\ (State = "Loading" /\ State' # "Loading")
              <=> (grantPc # "done" /\ grantPc' = "done")
          /\ State # "Loading"
              => <<loading, error, items, itemsUndefined>>'
                   = <<loading, error, items, itemsUndefined>>
          /\ grantRequests' = grantRequests]_vars

\* The controller is Loaded and the profile fetch has run to its end.
C6_Witness ==
    /\ State = "Loaded"
    /\ profilePc = "done"
    /\ DOMAIN recipientProfiles # {}
    /\ drawn

\* The body lacks data, data.grantss or data.grantss.items.
Malformed(body) == ~body.hasData \/ ~body.hasGrantss \/ ~body.hasItems

\* C7: once a success response whose body lacks the expected shape at some
\* level has been handled, the controller is in Error and the error message
\* is displayed; it is never Loaded with a missing item list.
C7_MalformedBodyEndsInError ==
    /\ (grantPc = "done" /\ responseData # <<>> /\ Malformed(responseData[1]))
         => (State = "Error" /\ Displayed = {"error"})
    /\ ~(State = "Loaded" /\ itemsUndefined)

\* C8: after a failed profile fetch the controller is Loaded with the
\* diagram mounted, the profile mapping is empty, the diagram is drawn
\* whenever the container has a size, and what is drawn is the graph of the
\* grant list in which every recipient node is named by its raw address.
RecipientAddress(node) ==
    SubSeq(node.nodeId, Len(RECIPIENT_PREFIX) + 1, Len(node.nodeId))

HasSize == dimensions.width # 0 /\ dimensions.height # 0

C8_ProfileFailureKeepsDiagram ==
    profilePc = "failed" =>
      /\ State = "Loaded"
      /\ Displayed = {"diagram"}
      /\ DOMAIN recipientProfiles = {}
      /\ HasSize => drawn
      /\ drawn =>
           /\ graph = BuildGraph(items, EmptyProfiles)
           /\ \A i \in DOMAIN graph.nodes :
                 graph.nodes[i].isRecipient
                 => /\ graph.nodes[i].name = RecipientAddress(graph.nodes[i])
                    /\ \E j \in DOMAIN items :
                          graph.nodes[i].name = items[j].recipient

\* The profile fetch failed and a diagram with a recipient node is drawn.
C8_Witness ==
    /\ profilePc = "failed"
    /\ drawn
    /\ \E i \in DOMAIN graph.nodes : graph.nodes[i].isRecipient

\* The drawn graph is the builder's output for the current list and mapping,
\* and every recipient with a profile carries the profile's name.
GraphIsCurrent ==
    /\ graph = BuildGraph(items, recipientProfiles)
    /\ \A i \in DOMAIN graph.nodes :
          LET node == graph.nodes[i]
              key == ToLowerCase(RecipientAddress(node))
          IN  (node.isRecipient /\ key \in DOMAIN recipientProfiles)
              => node.name = recipientProfiles[key].display_name
                               \o <<" ", "(">>
                               \o recipientProfiles[key].username \o <<")">>

\* C9 as stated: once the profile fetch has succeeded with the diagram drawn,
\* the drawn graph eventually is the builder's output for the current list
\* and mapping.
C9_ProfilesEventuallyShown ==
    (drawn /\ profilePc = "done") ~> GraphIsCurrent

\* C9, amended: whenever the diagram is mounted and its container has
\* non-zero width and height, the diagram is drawn and the drawn graph is
\* the builder's output for the current list and mapping (a mapping that
\* arrives while the container has no size is drawn at the next resize to a
\* non-zero size).
C9_ShownWhileContainerHasSize ==
    (DiagramMounted /\ HasSize) => (drawn /\ GraphIsCurrent)

\* Profiles arrived after a first draw and a recipient shows its profile.
C9_Witness ==
    /\ drawn
    /\ profilePc = "done"
    /\ HasSize
    /\ \E i \in DOMAIN graph.nodes :
          graph.nodes[i].isRecipient /\ graph.nodes[i].username # Undefined

\* C11: in every reachable state exactly one of the four views is displayed
\* (loading message, error message, diagram, "No grant data available"); in
\* particular the loading and the error message are never displayed together.
C11_ExactlyOneView ==
    /\ Cardinality(Displayed) = 1
    /\ ~({"loading", "error"} \subseteq Displayed)

====
